---- MODULE Spec2Model ----
(***************************************************************************)
(* Model of the AdaptiveVolumeControl engine                               *)
(* (src/project/AdaptiveVolumeControl.h, AdaptiveVolumeControl.cpp).       *)
(*                                                                         *)
(* Numbers.  The float members targetVolume / currentVolume hold exact     *)
(* multiples of 1/Scale: every product formed by calculateTargetVolume     *)
(* and applyVolumeModifiers (x 1/5, 4/5, 6/5, 3/5, 1/2, 1/4, 9/10) of an  *)
(* integer input is such a multiple, so the fixed-point value is the real  *)
(* number the float arithmetic approximates (float rounding, relative      *)
(* error below 1e-6, is abstracted; int -> float is exact below 2^24).     *)
(* The smoothing product diff * 0.3 is not such a multiple in general: it  *)
(* is rounded to the nearest multiple of 1/Scale, as the float product is  *)
(* rounded to the nearest float.                                           *)
(* int members keep their 32-bit width: see SpeedDiff.                     *)
(*                                                                         *)
(* Time.  system_clock is sampled in quarter seconds; HORN_DUCK_DURATION   *)
(* (0.5 s) is two samples.                                                 *)
(***************************************************************************)
EXTENDS Integers, FiniteSets, Sequences, TLC

----------------------------------------------------------------------------
(* Bounds of the exploration *)

\* the clock runs from 0 to MaxTime quarter-seconds
MaxTime == 3

----------------------------------------------------------------------------
(* Program constants (AdaptiveVolumeControl.h:37-43) *)

\* fixed-point denominator of a float volume
Scale == 5000

DEFAULT_VOLUME == 25 * Scale
MAX_VOLUME == 100 * Scale
MAX_ADAPTIVE_VOLUME == 80 * Scale
MIN_VOLUME == 0
\* 0.5 s, in quarter-seconds
HORN_DUCK_DURATION == 2

INT_MAX == 2147483647
INT_MIN == -2147483647 - 1

\* enum class Mode, enum class VolumeControlType
Modes == {"ECO", "COMFORT", "SPORTS"}
ControlTypes == {"ADAPTIVE", "MANUAL"}

\* the console lines applyVolumeModifiers can print
Messages == {"[Horn Duck Active]", "[Navigation Speaking]",
             "[Reverse Gear Active]", "[Sudden Brake]", "[Speed Decrease]"}

----------------------------------------------------------------------------
(* Inputs handed to update() *)

\* speeds: both sides of the band edges 0, 30 and 70, and pairs that drop by
\* 1, 10, 11 and more
Speeds == {0, 1, 11, 30, 31, 70, 71}

\* the ends of the specified operating range of speed and noise
RangeEnds == {-1000, 1000}

\* manual levels: negative, in range, above the ceiling
ManualVolumes == {-10, 50, 150}

Event(s, n, r, h, v, m, c, l) ==
    [speed |-> s, noise |-> n, reverseGear |-> r, hornActive |-> h,
     navSpeaking |-> v, mode |-> m, controlType |-> c, manualVolume |-> l]

\* Argument tuples of update(), as test.cpp and main.cpp build them.  Every
\* combination of the three flags is taken with: each drive mode at an
\* ordinary speed and noise; each speed; each manual level; the ends of the
\* operating range in the loudest and the quietest mode; and a manual call
\* whose other arguments are far from the ordinary ones.
\* An ADAPTIVE call passes manual level 0, as every caller does.
Events ==
    UNION { { Event(31, 50, r, h, v, m, "ADAPTIVE", 0) : m \in Modes }
            \cup { Event(s, 50, r, h, v, "COMFORT", "ADAPTIVE", 0) : s \in Speeds }
            \cup { Event(31, 50, r, h, v, "COMFORT", "MANUAL", l) : l \in ManualVolumes }
            \cup { Event(1000, 1000, r, h, v, "SPORTS", "ADAPTIVE", 0),
                   Event(-1000, -1000, r, h, v, "ECO", "ADAPTIVE", 0),
                   Event(-1000, 1000, r, h, v, "SPORTS", "MANUAL", 50) }
          : r \in BOOLEAN, h \in BOOLEAN, v \in BOOLEAN }

----------------------------------------------------------------------------
\* the data members (AdaptiveVolumeControl.h:84-99), the clock, and what the
\* latest update() left on the console
VARIABLES
    speed,              \* int speed
    previousSpeed,      \* int previousSpeed
    cabinNoise,         \* int cabinNoise
    reverseGear,        \* bool reverseGear
    hornActive,         \* bool hornActive
    navSpeaking,        \* bool navSpeaking
    mode,               \* Mode mode
    controlType,        \* VolumeControlType controlType
    manualVolume,       \* int manualVolume
    targetVolume,       \* float targetVolume, in units of 1/Scale
    currentVolume,      \* float currentVolume, in units of 1/Scale
    hornDuckStartTime,  \* time_point hornDuckStartTime, in quarter-seconds
    hornDuckActive,     \* bool hornDuckActive
    now,                \* what system_clock::now() returns, in quarter-seconds
    console,            \* the lines applyVolumeModifiers printed in the latest update()
    updated,            \* update() has been called since construction
    pc,                 \* where the caller is: "idle", or "smoothing" inside printAndSmooth
    returned            \* what an accessor returned, if the latest call was an accessor

vars == <<speed, previousSpeed, cabinNoise, reverseGear, hornActive,
          navSpeaking, mode, controlType, manualVolume, targetVolume,
          currentVolume, hornDuckStartTime, hornDuckActive, now, console,
          updated, pc, returned>>

\* the data members
members == <<speed, previousSpeed, cabinNoise, reverseGear, hornActive,
             navSpeaking, mode, controlType, manualVolume, targetVolume,
             currentVolume, hornDuckStartTime, hornDuckActive>>

\* no accessor value is held
NoCall == [fn |-> "none", value |-> 0]

----------------------------------------------------------------------------
(* float arithmetic *)

\* int -> float
IntToFloat(n) == n * Scale

\* x * (num/den) for a float constant num/den
MulF(x, num, den) == (x * num) \div den

MinF(a, b) == IF b < a THEN b ELSE a

\* std::abs
AbsF(x) == IF x < 0 THEN -x ELSE x

\* n / d rounded to the nearest integer, halves away from zero
RoundDiv(n, d) ==
    IF n >= 0 THEN (2 * n + d) \div (2 * d) ELSE -((2 * (-n) + d) \div (2 * d))

\* x * (num/den), rounded to the nearest multiple of 1/Scale
MulFRound(x, num, den) == RoundDiv(x * num, den)

----------------------------------------------------------------------------
(* AdaptiveVolumeControl::AdaptiveVolumeControl *)
\* variant: the engine starts from silence
InitSilent ==
    /\ speed = 0
    /\ previousSpeed = 0
    /\ cabinNoise = 30
    /\ reverseGear = FALSE
    /\ hornActive = FALSE
    /\ navSpeaking = FALSE
    /\ mode = "COMFORT"
    /\ controlType = "ADAPTIVE"
    /\ manualVolume = 25
    /\ targetVolume = DEFAULT_VOLUME
    /\ currentVolume = MIN_VOLUME
    /\ hornDuckActive = FALSE
    /\ now = 0
    /\ hornDuckStartTime = now
    /\ console = {}
    /\ updated = FALSE
    /\ pc = "idle"
    /\ returned = NoCall

Init ==
    /\ speed = 0
    /\ previousSpeed = 0
    /\ cabinNoise = 30
    /\ reverseGear = FALSE
    /\ hornActive = FALSE
    /\ navSpeaking = FALSE
    /\ mode = "COMFORT"
    /\ controlType = "ADAPTIVE"
    /\ manualVolume = 25
    /\ targetVolume = DEFAULT_VOLUME
    /\ currentVolume = DEFAULT_VOLUME
    /\ hornDuckActive = FALSE
    /\ now = 0
    /\ hornDuckStartTime = now
    /\ console = {}
    /\ updated = FALSE
    /\ pc = "idle"
    /\ returned = NoCall

----------------------------------------------------------------------------
(* int speedDiff = previousSpeed - speed;  (applyVolumeModifiers, line 132)  *)
(* The subtraction is a 32-bit signed one.  When the mathematical difference *)
(* leaves [INT_MIN, INT_MAX] the behaviour is undefined: a build either      *)
(* wraps modulo 2^32 or, having widened or rearranged the comparison, acts   *)
(* on the mathematical sign.  The result is the set of values speedDiff may  *)
(* hold, each computed without leaving the 32-bit range.                     *)
SpeedDiff(prev, spd) ==
    IF prev >= 0 /\ spd < 0 /\ prev > INT_MAX + spd
      THEN {(prev + INT_MIN) + (INT_MIN - spd), INT_MAX}
    ELSE IF prev < 0 /\ spd > 0 /\ prev < INT_MIN + spd
      THEN {(prev - INT_MIN) + ((INT_MAX - spd) + 1), INT_MIN}
    ELSE {prev - spd}

----------------------------------------------------------------------------
(* AdaptiveVolumeControl::handleHornDucking, lines 73-94.                    *)
(* curHornActive is the member hornActive as the function reads it, t is the *)
(* clock value it samples.  The result is the ducking state it leaves.       *)
\* variant: a press only starts a window when none is running, so a held horn
\* goes through the expiry check
handleHornDuckingNoRearm(newHornActive, curHornActive, duckActive, duckStart, t) ==
    IF newHornActive /\ ~duckActive
      THEN [active |-> TRUE, start |-> t]
    ELSE IF duckActive /\ t - duckStart >= HORN_DUCK_DURATION
      THEN [active |-> FALSE, start |-> duckStart]
    ELSE [active |-> duckActive, start |-> duckStart]

\* variant: a window, once started, is never ended
handleHornDuckingNoExpiry(newHornActive, curHornActive, duckActive, duckStart, t) ==
    IF newHornActive \/ curHornActive
      THEN [active |-> TRUE, start |-> t]
    ELSE [active |-> duckActive, start |-> duckStart]

\* variant: the window is over only after more than HORN_DUCK_DURATION
handleHornDuckingStrictExpiry(newHornActive, curHornActive, duckActive, duckStart, t) ==
    IF newHornActive
      THEN [active |-> TRUE, start |-> t]
    ELSE IF curHornActive
      THEN [active |-> TRUE, start |-> t]
    ELSE IF duckActive
      THEN IF t - duckStart > HORN_DUCK_DURATION
             THEN [active |-> FALSE, start |-> duckStart]
             ELSE [active |-> duckActive, start |-> duckStart]
    ELSE [active |-> duckActive, start |-> duckStart]

handleHornDucking(newHornActive, curHornActive, duckActive, duckStart, t) ==
    IF newHornActive
      THEN [active |-> TRUE, start |-> t]
    ELSE IF curHornActive
      THEN [active |-> TRUE, start |-> t]
    ELSE IF duckActive
      THEN IF t - duckStart >= HORN_DUCK_DURATION
             THEN [active |-> FALSE, start |-> duckStart]
             ELSE [active |-> duckActive, start |-> duckStart]
    ELSE [active |-> duckActive, start |-> duckStart]

----------------------------------------------------------------------------
(* AdaptiveVolumeControl::applyVolumeModifiers, lines 111-147 *)

\* lines 113-116
HornDuckStep(v, duck) == IF duck THEN MulF(v, 3, 5) ELSE v

\* lines 119-122
NavigationStep(v, nav) == IF nav THEN MulF(v, 1, 2) ELSE v

\* lines 125-128
ReverseStep(v, rev) == IF rev THEN MulF(v, 1, 4) ELSE v

\* variant: the deceleration check is not skipped in reverse
BrakeStepInReverse(v, rev, speedDiff, spd, prev) ==
    IF speedDiff > 10 THEN MulF(v, 1, 2)
    ELSE IF spd < prev THEN MulF(v, 9, 10)
    ELSE v

\* variant: the sudden-brake threshold is met at a drop of exactly 10
BrakeStepFromTen(v, rev, speedDiff, spd, prev) ==
    IF ~rev
      THEN IF speedDiff >= 10 THEN MulF(v, 1, 2)
           ELSE IF spd < prev THEN MulF(v, 9, 10)
           ELSE v
      ELSE v

\* lines 131-140
BrakeStep(v, rev, speedDiff, spd, prev) ==
    IF ~rev
      THEN IF speedDiff > 10 THEN MulF(v, 1, 2)
           ELSE IF spd < prev THEN MulF(v, 9, 10)
           ELSE v
      ELSE v

\* variant: the lower clamp is missing
ClampStepNoFloor(v) ==
    IF v > MAX_ADAPTIVE_VOLUME THEN MAX_ADAPTIVE_VOLUME ELSE v

\* lines 143-144
ClampStep(v) ==
    LET lo == IF v < MIN_VOLUME THEN MIN_VOLUME ELSE v
    IN  IF lo > MAX_ADAPTIVE_VOLUME THEN MAX_ADAPTIVE_VOLUME ELSE lo

\* variant: horn and navigation attenuation add up (1 - 0.4 - 0.5) instead of
\* multiplying
ModifiersAdditive(baseVolume, duck, nav, rev, speedDiff, spd, prev) ==
    BrakeStep(
      ReverseStep(
        IF duck /\ nav THEN MulF(baseVolume, 1, 10)
        ELSE NavigationStep(HornDuckStep(baseVolume, duck), nav),
        rev),
      rev, speedDiff, spd, prev)

\* lines 113-140: the running value before it is clamped
Modifiers(baseVolume, duck, nav, rev, speedDiff, spd, prev) ==
    BrakeStep(
      ReverseStep(NavigationStep(HornDuckStep(baseVolume, duck), nav), rev),
      rev, speedDiff, spd, prev)

\* variant: the horn factor is applied to the clamped value
applyVolumeModifiersDuckLast(baseVolume, duck, nav, rev, speedDiff, spd, prev) ==
    HornDuckStep(
      ClampStep(Modifiers(baseVolume, FALSE, nav, rev, speedDiff, spd, prev)),
      duck)

applyVolumeModifiers(baseVolume, duck, nav, rev, speedDiff, spd, prev) ==
    ClampStep(Modifiers(baseVolume, duck, nav, rev, speedDiff, spd, prev))

\* the lines applyVolumeModifiers prints (114, 120, 126, 134, 137)
ModifierMessages(duck, nav, rev, speedDiff, spd, prev) ==
    (IF duck THEN {"[Horn Duck Active]"} ELSE {})
    \cup (IF nav THEN {"[Navigation Speaking]"} ELSE {})
    \cup (IF rev THEN {"[Reverse Gear Active]"} ELSE {})
    \cup (IF ~rev /\ speedDiff > 10 THEN {"[Sudden Brake]"}
          ELSE IF ~rev /\ spd < prev THEN {"[Speed Decrease]"}
          ELSE {})

----------------------------------------------------------------------------
(* AdaptiveVolumeControl::calculateTargetVolume, lines 152-173 *)

\* variant: the highest band starts at 70, not above it
SpeedBaseFromSeventy(spd) ==
    IntToFloat(25) + (IF spd >= 70 THEN IntToFloat(15)
                      ELSE IF spd > 30 THEN IntToFloat(10)
                      ELSE IF spd > 0 THEN IntToFloat(5)
                      ELSE 0)

\* lines 158-162
SpeedBase(spd) ==
    IntToFloat(25) + (IF spd > 70 THEN IntToFloat(15)
                      ELSE IF spd > 30 THEN IntToFloat(10)
                      ELSE IF spd > 0 THEN IntToFloat(5)
                      ELSE 0)

\* line 164
NoiseTerm(noise) == MulF(IntToFloat(noise), 1, 5)

\* lines 166-170
ModeStep(v, m) ==
    CASE m = "ECO" -> MulF(v, 4, 5)
      [] m = "COMFORT" -> v
      [] m = "SPORTS" -> MulF(v, 6, 5)

\* lines 158-170: baseVolume as handed to applyVolumeModifiers
BaseVolume(spd, noise, m) == ModeStep(SpeedBase(spd) + NoiseTerm(noise), m)

\* variant: the manual level is capped at the adaptive ceiling
ManualTargetAdaptiveCeiling(manual) ==
    MinF(IntToFloat(manual), MAX_ADAPTIVE_VOLUME)

\* lines 153-155
ManualTarget(manual) == MinF(IntToFloat(manual), MAX_VOLUME)

\* variant: the navigation factor lingers for one update after the flag
\* (navSpeaking is the member as the preceding update left it)
calculateTargetVolumeLingering(ctl, manual, spd, prev, noise, m, duck, nav, rev, speedDiff) ==
    IF ctl = "MANUAL"
      THEN ManualTarget(manual)
      ELSE applyVolumeModifiers(BaseVolume(spd, noise, m),
                                duck, nav \/ navSpeaking, rev, speedDiff,
                                spd, prev)

calculateTargetVolume(ctl, manual, spd, prev, noise, m, duck, nav, rev, speedDiff) ==
    IF ctl = "MANUAL"
      THEN ManualTarget(manual)
      ELSE applyVolumeModifiers(BaseVolume(spd, noise, m),
                                duck, nav, rev, speedDiff, spd, prev)

----------------------------------------------------------------------------
(* AdaptiveVolumeControl::update, lines 44-67 *)

\* line 61
ManualAfter(ctl, oldManual, newManualVolume) ==
    IF ctl = "MANUAL" THEN newManualVolume ELSE oldManual

\* variant: handleHornDucking sees the flag of the preceding update, as if it
\* were called before line 56
DuckAfterPreviousFlag(newHornActive, oldHornActive, duckActive, duckStart, t) ==
    handleHornDucking(newHornActive, oldHornActive, duckActive, duckStart, t)

\* line 63: hornActive was overwritten on line 56, so the member that
\* handleHornDucking reads already holds the new flag
DuckAfter(newHornActive, oldHornActive, duckActive, duckStart, t) ==
    handleHornDucking(newHornActive, newHornActive, duckActive, duckStart, t)

\* variant: the new target is put through to the current level at once
updateJumping(newSpeed, newNoise, newReverseGear, newHornActive, newNavSpeaking, newMode, newControlType, newManualVolume) ==
    \E speedDiff \in SpeedDiff(speed, newSpeed) :
      LET duck == DuckAfter(newHornActive, hornActive, hornDuckActive,
                            hornDuckStartTime, now)
          manual == ManualAfter(newControlType, manualVolume, newManualVolume)
      IN  /\ pc = "idle"
          /\ previousSpeed' = speed
          /\ speed' = newSpeed
          /\ cabinNoise' = newNoise
          /\ reverseGear' = newReverseGear
          /\ hornActive' = newHornActive
          /\ navSpeaking' = newNavSpeaking
          /\ mode' = newMode
          /\ controlType' = newControlType
          /\ manualVolume' = manual
          /\ hornDuckActive' = duck.active
          /\ hornDuckStartTime' = duck.start
          /\ targetVolume' =
               calculateTargetVolume(newControlType, manual, newSpeed, speed,
                                     newNoise, newMode, duck.active,
                                     newNavSpeaking, newReverseGear, speedDiff)
          /\ currentVolume' = targetVolume'
          /\ console' =
               IF newControlType = "ADAPTIVE"
                 THEN ModifierMessages(duck.active, newNavSpeaking,
                                       newReverseGear, speedDiff,
                                       newSpeed, speed)
                 ELSE {}
          /\ updated' = TRUE
          /\ returned' = NoCall
          /\ UNCHANGED <<now, pc>>

\* variant: under manual policy the call stores the inputs and the target
\* and returns, without the previous-speed save and the ducking transition
updateManualShortcut(newSpeed, newNoise, newReverseGear, newHornActive, newNavSpeaking, newMode, newControlType, newManualVolume) ==
    \E speedDiff \in SpeedDiff(speed, newSpeed) :
      LET duck == IF newControlType = "MANUAL"
                    THEN [active |-> hornDuckActive, start |-> hornDuckStartTime]
                    ELSE DuckAfter(newHornActive, hornActive, hornDuckActive,
                                   hornDuckStartTime, now)
          manual == ManualAfter(newControlType, manualVolume, newManualVolume)
      IN  /\ pc = "idle"
          /\ previousSpeed' =
               (IF newControlType = "MANUAL" THEN previousSpeed ELSE speed)
          /\ speed' = newSpeed
          /\ cabinNoise' = newNoise
          /\ reverseGear' = newReverseGear
          /\ hornActive' = newHornActive
          /\ navSpeaking' = newNavSpeaking
          /\ mode' = newMode
          /\ controlType' = newControlType
          /\ manualVolume' = manual
          /\ hornDuckActive' = duck.active
          /\ hornDuckStartTime' = duck.start
          /\ targetVolume' =
               calculateTargetVolume(newControlType, manual, newSpeed, speed,
                                     newNoise, newMode, duck.active,
                                     newNavSpeaking, newReverseGear, speedDiff)
          /\ console' =
               IF newControlType = "ADAPTIVE"
                 THEN ModifierMessages(duck.active, newNavSpeaking,
                                       newReverseGear, speedDiff,
                                       newSpeed, speed)
                 ELSE {}
          /\ updated' = TRUE
          /\ returned' = NoCall
          /\ UNCHANGED <<currentVolume, now, pc>>

update(newSpeed, newNoise, newReverseGear, newHornActive, newNavSpeaking, newMode, newControlType, newManualVolume) ==
    \E speedDiff \in SpeedDiff(speed, newSpeed) :
      LET duck == DuckAfter(newHornActive, hornActive, hornDuckActive,
                            hornDuckStartTime, now)
          manual == ManualAfter(newControlType, manualVolume, newManualVolume)
      IN  /\ pc = "idle"
          /\ previousSpeed' = speed
          /\ speed' = newSpeed
          /\ cabinNoise' = newNoise
          /\ reverseGear' = newReverseGear
          /\ hornActive' = newHornActive
          /\ navSpeaking' = newNavSpeaking
          /\ mode' = newMode
          /\ controlType' = newControlType
          /\ manualVolume' = manual
          /\ hornDuckActive' = duck.active
          /\ hornDuckStartTime' = duck.start
          /\ targetVolume' =
               calculateTargetVolume(newControlType, manual, newSpeed, speed,
                                     newNoise, newMode, duck.active,
                                     newNavSpeaking, newReverseGear, speedDiff)
          /\ console' =
               IF newControlType = "ADAPTIVE"
                 THEN ModifierMessages(duck.active, newNavSpeaking,
                                       newReverseGear, speedDiff,
                                       newSpeed, speed)
                 ELSE {}
          /\ updated' = TRUE
          /\ returned' = NoCall
          /\ UNCHANGED <<currentVolume, now, pc>>

Update ==
    \E e \in Events :
      update(e.speed, e.noise, e.reverseGear, e.hornActive, e.navSpeaking,
             e.mode, e.controlType, e.manualVolume)

----------------------------------------------------------------------------
(* The clock advances between calls (the callers sleep: test.cpp:75,150,     *)
(* main.cpp:52).                                                             *)
\* variant: the passing of time ends a ducking window that has run out
TickExpiring ==
    /\ now < MaxTime
    /\ now' = now + 1
    /\ hornDuckActive' =
         (hornDuckActive /\ now' - hornDuckStartTime < HORN_DUCK_DURATION)
    /\ UNCHANGED <<speed, previousSpeed, cabinNoise, reverseGear, hornActive,
                   navSpeaking, mode, controlType, manualVolume, targetVolume,
                   currentVolume, hornDuckStartTime, console,
                   updated, pc, returned>>

Tick ==
    /\ now < MaxTime
    /\ now' = now + 1
    /\ UNCHANGED <<speed, previousSpeed, cabinNoise, reverseGear, hornActive,
                   navSpeaking, mode, controlType, manualVolume, targetVolume,
                   currentVolume, hornDuckStartTime, hornDuckActive, console,
                   updated, pc, returned>>

Next == Update \/ Tick

Spec == Init /\ [][Next]_vars

----------------------------------------------------------------------------
(* AdaptiveVolumeControl::smoothVolumeTransition, lines 178-183:             *)
(* the value it leaves in currentVolume                                      *)

\* variant: the whole gap is added and a third of it once more
smoothVolumeTransitionOvershoot(cur, tgt) ==
    cur + (tgt - cur) + MulFRound(tgt - cur, 3, 10)

smoothVolumeTransition(cur, tgt) == cur + MulFRound(tgt - cur, 3, 10)

----------------------------------------------------------------------------
(* AdaptiveVolumeControl::printAndSmooth, lines 220-230.  The loop sleeps    *)
(* 200 ms in every iteration, so the clock may advance between iterations;   *)
(* the caller is inside the call (pc = "smoothing") until it returns.        *)

\* the literal 0.5f of line 222
SmoothEpsilon == Scale \div 2

\* line 222: the loop condition
GapOpen(cur, tgt) == AbsF(cur - tgt) > SmoothEpsilon

\* line 221: the call prints the event header and reaches the loop
printAndSmoothCall ==
    /\ pc = "idle"
    /\ pc' = "smoothing"
    /\ returned' = NoCall
    /\ UNCHANGED <<members, now, console, updated>>

\* lines 222-226: one iteration
printAndSmoothLoop ==
    /\ pc = "smoothing"
    /\ GapOpen(currentVolume, targetVolume)
    /\ currentVolume' = smoothVolumeTransition(currentVolume, targetVolume)
    /\ UNCHANGED <<speed, previousSpeed, cabinNoise, reverseGear, hornActive,
                   navSpeaking, mode, controlType, manualVolume, targetVolume,
                   hornDuckStartTime, hornDuckActive, now, console, updated,
                   pc, returned>>

\* variant: the loop is left without the assignment of line 227
printAndSmoothReturnNoSnap ==
    /\ pc = "smoothing"
    /\ ~GapOpen(currentVolume, targetVolume)
    /\ pc' = "idle"
    /\ UNCHANGED <<members, now, console, updated, returned>>

\* lines 227-229: the loop is left, currentVolume = targetVolume, return
printAndSmoothReturn ==
    /\ pc = "smoothing"
    /\ ~GapOpen(currentVolume, targetVolume)
    /\ currentVolume' = targetVolume
    /\ pc' = "idle"
    /\ UNCHANGED <<speed, previousSpeed, cabinNoise, reverseGear, hornActive,
                   navSpeaking, mode, controlType, manualVolume, targetVolume,
                   hornDuckStartTime, hornDuckActive, now, console, updated,
                   returned>>

----------------------------------------------------------------------------
(* The accessors, AdaptiveVolumeControl.h:75 and :81 *)

\* variant: the accessor brings the current level to the target before
\* returning it
getCurrentVolumeSettling ==
    /\ pc = "idle"
    /\ currentVolume' = targetVolume
    /\ returned' = [fn |-> "getCurrentVolume", value |-> targetVolume]
    /\ UNCHANGED <<speed, previousSpeed, cabinNoise, reverseGear, hornActive,
                   navSpeaking, mode, controlType, manualVolume, targetVolume,
                   hornDuckStartTime, hornDuckActive, now, console, updated, pc>>

getCurrentVolume ==
    /\ pc = "idle"
    /\ returned' = [fn |-> "getCurrentVolume", value |-> currentVolume]
    /\ UNCHANGED <<members, now, console, updated, pc>>

getTargetVolume ==
    /\ pc = "idle"
    /\ returned' = [fn |-> "getTargetVolume", value |-> targetVolume]
    /\ UNCHANGED <<members, now, console, updated, pc>>

----------------------------------------------------------------------------
(* The engine driven as main.cpp drives it: update(), printAndSmooth() and   *)
(* pauses, in any order, with the accessors read in between.                 *)

\* Argument tuples of update(): an ordinary automatic call with and without
\* the horn, a standstill call with and without navigation, the loudest
\* call, a standstill call in reverse, and a manual call at each manual level.
DriveEvents ==
    { Event(31, 50, FALSE, h, FALSE, "COMFORT", "ADAPTIVE", 0) : h \in BOOLEAN }
    \cup { Event(0, 50, FALSE, FALSE, v, "ECO", "ADAPTIVE", 0) : v \in BOOLEAN }
    \cup { Event(1000, 1000, FALSE, FALSE, FALSE, "SPORTS", "ADAPTIVE", 0),
           Event(0, 50, TRUE, FALSE, FALSE, "ECO", "ADAPTIVE", 0) }
    \cup { Event(31, 50, FALSE, FALSE, FALSE, "COMFORT", "MANUAL", l) : l \in ManualVolumes }

UpdateDrive ==
    \E e \in DriveEvents :
      update(e.speed, e.noise, e.reverseGear, e.hornActive, e.navSpeaking,
             e.mode, e.controlType, e.manualVolume)

NextDrive ==
    \/ UpdateDrive
    \/ printAndSmoothCall
    \/ printAndSmoothLoop
    \/ printAndSmoothReturn
    \/ getCurrentVolume
    \/ getTargetVolume
    \/ Tick

SpecDrive == Init /\ [][NextDrive]_vars

\* printAndSmooth runs on: sleep_for returns and the loop takes its next
\* iteration or its exit
FairSpecDrive ==
    /\ SpecDrive
    /\ WF_vars(printAndSmoothLoop)
    /\ WF_vars(printAndSmoothReturn)

----------------------------------------------------------------------------
(* update() called again and again while the clock runs (main.cpp:48-53     *)
(* without the printAndSmooth calls): the clock reaches every instant up to  *)
(* MaxTime and another update() always follows.                              *)

NextUpdates == UpdateDrive \/ Tick

FairSpecUpdates ==
    /\ Init /\ [][NextUpdates]_vars
    /\ WF_vars(Tick)
    /\ WF_vars(UpdateDrive)

----------------------------------------------------------------------------
(* update() called with speeds over the whole range of int *)

WideSpeeds == {INT_MIN, -1, 0, 1, 12, INT_MAX}

WideEvents ==
    { Event(s, 50, r, h, FALSE, "COMFORT", "ADAPTIVE", 0) :
        s \in WideSpeeds, r \in BOOLEAN, h \in BOOLEAN }

UpdateWide ==
    \E e \in WideEvents :
      update(e.speed, e.noise, e.reverseGear, e.hornActive, e.navSpeaking,
             e.mode, e.controlType, e.manualVolume)

NextWide == UpdateWide \/ Tick

SpecWide == Init /\ [][NextWide]_vars

----------------------------------------------------------------------------
TypeOK ==
    /\ speed \in Speeds \cup RangeEnds \cup WideSpeeds
    /\ previousSpeed \in Speeds \cup RangeEnds \cup WideSpeeds
    /\ cabinNoise \in {30, 50} \cup RangeEnds
    /\ reverseGear \in BOOLEAN /\ hornActive \in BOOLEAN
    /\ navSpeaking \in BOOLEAN /\ hornDuckActive \in BOOLEAN
    /\ mode \in Modes /\ controlType \in ControlTypes
    /\ manualVolume \in ManualVolumes \cup {25}
    /\ targetVolume \in Int /\ currentVolume \in Int
    /\ now \in 0..MaxTime /\ hornDuckStartTime \in 0..now
    /\ console \subseteq Messages
    /\ updated \in BOOLEAN
    /\ pc \in {"idle", "smoothing"}
    /\ returned \in [fn : {"none", "getCurrentVolume", "getTargetVolume"},
                      value : Int]

----------------------------------------------------------------------------
(* Reference arithmetic of the stated properties: the documented formula as  *)
(* one product of exact fractions, in the fixed-point unit 1/Scale.          *)

\* a step of update(): Tick is the only other action and it moves the clock
UpdateCall == now' = now

\* the levels 0, 80 and 100 of the documented ranges
Level(n) == n * Scale

\* B = (25 + speed bonus + 0.2 x noise) x mode multiplier
RefBonus(spd) ==
    IF spd > 70 THEN 15 ELSE IF spd > 30 THEN 10 ELSE IF spd > 0 THEN 5 ELSE 0

RefModeFifths(m) == IF m = "ECO" THEN 4 ELSE IF m = "SPORTS" THEN 6 ELSE 5

RefBase(spd, noise, m) ==
    (5 * (25 + RefBonus(spd)) + noise) * RefModeFifths(m) * (Scale \div 25)

\* x * (num/den), defined only where the quotient is exact
RefTimes(x, num, den) ==
    IF (x * num) % den = 0 THEN (x * num) \div den ELSE -Level(100000)

RefClamp(x) == IF x < 0 THEN 0 ELSE IF x > Level(80) THEN Level(80) ELSE x

RefDuck(x, duck) == IF duck THEN RefTimes(x, 6, 10) ELSE x
RefNav(x, nav) == IF nav THEN RefTimes(x, 5, 10) ELSE x

\* the deceleration band of a drop d = previous speed - new speed
RefBand(x, d) ==
    IF d > 10 THEN RefTimes(x, 5, 10)
    ELSE IF d >= 1 THEN RefTimes(x, 9, 10)
    ELSE x

----------------------------------------------------------------------------
(* C1..C10 *)

\* C1: under manual policy the target is min(m, 100), m the manual level of
\* that update, whatever the other inputs and the engine's earlier state.
C1_ManualOverride ==
    (updated /\ controlType = "MANUAL") =>
        targetVolume = Level(IF manualVolume < 100 THEN manualVolume ELSE 100)

\* a manual update above the ceiling, made with reverse, horn and navigation
\* set and ducking active
C1_Witness ==
    /\ updated /\ controlType = "MANUAL" /\ manualVolume = 150
    /\ targetVolume = Level(100)
    /\ reverseGear /\ hornActive /\ navSpeaking /\ hornDuckActive

\* a manual update in range after an automatic update that was ducked
C1_WitnessInRange ==
    /\ updated /\ controlType = "MANUAL" /\ manualVolume = 50
    /\ targetVolume = Level(50) /\ speed = -1000 /\ cabinNoise = 1000
    /\ mode = "SPORTS" /\ hornDuckActive /\ ~hornActive

\* C2: after an update under automatic policy the target lies in [0, 80].
C2_AutomaticClamping ==
    (updated /\ controlType = "ADAPTIVE") =>
        (Level(0) <= targetVolume /\ targetVolume <= Level(80))

\* an automatic update whose unclamped value is negative, held at the floor
C2_Witness ==
    /\ updated /\ controlType = "ADAPTIVE" /\ cabinNoise = -1000
    /\ speed = -1000 /\ mode = "ECO" /\ targetVolume = Level(0)

\* C3 (as stated): the first horn-false update after a horn-true update
\* leaves ducking active with the window start reset to that update's time.
C3_FreshWindowOnRelease ==
    [][(UpdateCall /\ hornActive /\ ~hornActive') =>
         (hornDuckActive' /\ hornDuckStartTime' = now')]_vars

C5_HornPressAttenuation ==
    (updated /\ controlType = "ADAPTIVE" /\ hornActive) =>
        5 * targetVolume =
          3 * calculateTargetVolume(controlType, manualVolume, speed,
                                    previousSpeed, cabinNoise, mode, FALSE,
                                    navSpeaking, reverseGear,
                                    previousSpeed - speed)

\* C5 (amended): after an automatic update with horn flag true the target is
\* clamp(0.6 x P, 0, 80), P being the unclamped value the same update computes
\* with ducking inactive; it is 0.6 times the unducked target whenever P <= 80.
C5_HornPressAttenuationClamped ==
    (updated /\ controlType = "ADAPTIVE" /\ hornActive) =>
        LET P == Modifiers(BaseVolume(speed, cabinNoise, mode), FALSE,
                           navSpeaking, reverseGear, previousSpeed - speed,
                           speed, previousSpeed)
            unducked ==
                 calculateTargetVolume(controlType, manualVolume, speed,
                                       previousSpeed, cabinNoise, mode, FALSE,
                                       navSpeaking, reverseGear,
                                       previousSpeed - speed)
        IN  /\ targetVolume = RefClamp(RefTimes(P, 3, 5))
            /\ (P <= Level(80) => 5 * targetVolume = 3 * unducked)

\* horn pressed at speed 31, noise 50, Comfort: 45 x 0.6 = 27
C5_Witness ==
    /\ updated /\ controlType = "ADAPTIVE" /\ hornActive /\ hornDuckActive
    /\ speed = 31 /\ previousSpeed = 31 /\ cabinNoise = 50 /\ mode = "COMFORT"
    /\ ~navSpeaking /\ ~reverseGear /\ targetVolume = Level(27)

\* horn pressed at noise 1000: ducked and unducked value both sit at 80
C5_WitnessCeiling ==
    /\ updated /\ controlType = "ADAPTIVE" /\ hornActive /\ hornDuckActive
    /\ cabinNoise = 1000 /\ ~navSpeaking /\ ~reverseGear
    /\ targetVolume = Level(80)

\* C6: after every update with horn flag true ducking is active and the
\* window start is that update's time; in every state horn-active implies
\* ducking-active.
C6_DuckingWhileHornHeld ==
    /\ [](hornActive => hornDuckActive)
    /\ [][(UpdateCall /\ hornActive') =>
            (hornDuckActive' /\ hornDuckStartTime' = now')]_vars

\* the horn, pressed at time 0, is still held in an update at time 3
C6_Witness ==
    /\ updated /\ hornActive /\ hornDuckActive
    /\ hornDuckStartTime = 3 /\ now = 3
    /\ "[Horn Duck Active]" \in console

\* C7: automatic update, horn and navigation true, reverse false, speed not
\* below the previous speed: target = clamp(B x 0.6 x 0.5, 0, 80).
C7_Compounding ==
    (/\ updated /\ controlType = "ADAPTIVE" /\ hornActive /\ navSpeaking
     /\ ~reverseGear /\ speed >= previousSpeed)
    => targetVolume = RefClamp(RefTimes(RefBase(speed, cabinNoise, mode), 3, 10))

\* horn and navigation together at speed 31, noise 50, Comfort: 13.5
C7_Witness ==
    /\ updated /\ controlType = "ADAPTIVE" /\ hornActive /\ navSpeaking
    /\ ~reverseGear /\ speed = 31 /\ previousSpeed = 31 /\ cabinNoise = 50
    /\ mode = "COMFORT" /\ 2 * targetVolume = Level(27)

\* C8: automatic update with reverse true: the reverse factor 0.25 is applied
\* and neither deceleration factor, whatever the previous and the new speed.
C8_ReverseSuppressesDeceleration ==
    (updated /\ controlType = "ADAPTIVE" /\ reverseGear) =>
        /\ "[Reverse Gear Active]" \in console
        /\ "[Sudden Brake]" \notin console
        /\ "[Speed Decrease]" \notin console
        /\ targetVolume =
             RefClamp(RefTimes(RefNav(RefDuck(RefBase(speed, cabinNoise, mode),
                                              hornDuckActive),
                                      navSpeaking), 1, 4))

\* reverse engaged while the speed drops from 71 to 31: 45 x 0.25 = 11.25
C8_Witness ==
    /\ updated /\ controlType = "ADAPTIVE" /\ reverseGear
    /\ previousSpeed = 71 /\ speed = 31 /\ cabinNoise = 50 /\ mode = "COMFORT"
    /\ ~navSpeaking /\ ~hornDuckActive /\ 4 * targetVolume = Level(45)

\* C9: update() saves the preceding update's speed (0 before the first) as
\* the previous speed under either policy; in an automatic update with
\* reverse false and d = previous - new speed, exactly the factor 0.5 is
\* applied if d > 10, exactly 0.9 if 1 <= d <= 10, neither if d <= 0 (so a
\* following update with unchanged speed applies neither).
C9_BrakingBands ==
    [][UpdateCall =>
         /\ previousSpeed' = speed
         /\ (controlType' = "ADAPTIVE" /\ ~reverseGear') =>
              LET d == speed - speed'
              IN  /\ ("[Sudden Brake]" \in console') = (d > 10)
                  /\ ("[Speed Decrease]" \in console') = (1 <= d /\ d <= 10)
                  /\ targetVolume' =
                       RefClamp(RefBand(RefNav(RefDuck(
                           RefBase(speed', cabinNoise', mode'),
                           hornDuckActive'), navSpeaking'), d))]_vars

\* a drop of 11 (from 11 to 0): (25 + 0 + 10) x 0.5 = 17.5
C9_Witness ==
    /\ updated /\ controlType = "ADAPTIVE" /\ ~reverseGear
    /\ previousSpeed = 11 /\ speed = 0 /\ cabinNoise = 50 /\ mode = "COMFORT"
    /\ ~navSpeaking /\ ~hornDuckActive
    /\ console = {"[Sudden Brake]"} /\ 2 * targetVolume = Level(35)

\* a drop of 10 (from 11 to 1): (25 + 5 + 10) x 0.9 = 36
C9_WitnessMild ==
    /\ updated /\ controlType = "ADAPTIVE" /\ ~reverseGear
    /\ previousSpeed = 11 /\ speed = 1 /\ cabinNoise = 50 /\ mode = "COMFORT"
    /\ ~navSpeaking /\ ~hornDuckActive
    /\ console = {"[Speed Decrease]"} /\ targetVolume = Level(36)

\* the update after a drop keeps the speed: no factor, 25 + 0 + 10 = 35
C9_WitnessTransient ==
    /\ updated /\ controlType = "ADAPTIVE" /\ ~reverseGear
    /\ previousSpeed = 0 /\ speed = 0 /\ cabinNoise = 50 /\ mode = "COMFORT"
    /\ ~navSpeaking /\ ~hornDuckActive
    /\ console = {} /\ targetVolume = Level(35)

\* C10 (as stated): in every state the target lies in [0, C], C = 100 under
\* manual and 80 under automatic policy.
C10_TargetRange ==
    /\ Level(0) <= targetVolume
    /\ targetVolume <= (IF controlType = "MANUAL" THEN Level(100) ELSE Level(80))

----------------------------------------------------------------------------
(* C11..C20 *)

\* a step of update() among the steps of NextDrive: the caller is outside
\* printAndSmooth before and after, the clock stands, no accessor returned
UpdateStep ==
    /\ pc = "idle" /\ pc' = "idle" /\ now' = now /\ returned' = NoCall
    /\ updated'

\* an iteration of the printAndSmooth loop
LoopStep == pc = "smoothing" /\ pc' = "smoothing" /\ now' = now

\* the ceiling of the stored policy
RefCeiling(ctl) == IF ctl = "MANUAL" THEN Level(100) ELSE Level(80)

\* C11 (as stated): in every reachable state the current level lies in
\* [0, C], C = 80 under automatic and 100 under manual policy.
C11_CurrentRange ==
    Level(0) <= currentVolume /\ currentVolume <= RefCeiling(controlType)

\* C12: each smoothing step sets current to current + 0.3 x (target -
\* current) (to the nearest representable value); the gap |current - target|
\* strictly decreases and the sign of target - current is kept.
C12_MonotoneConvergence ==
    /\ []((pc = "smoothing" /\ GapOpen(currentVolume, targetVolume)) =>
           LET c == smoothVolumeTransition(currentVolume, targetVolume)
           IN  /\ AbsF(targetVolume - c) < AbsF(targetVolume - currentVolume)
               /\ (targetVolume > currentVolume) = (targetVolume > c)
               /\ (targetVolume < currentVolume) = (targetVolume < c))
    /\ [][LoopStep =>
            /\ AbsF(10 * (currentVolume' - currentVolume)
                     - 3 * (targetVolume - currentVolume)) <= 5
            /\ AbsF(targetVolume' - currentVolume')
                 < AbsF(targetVolume - currentVolume)
            /\ (targetVolume > currentVolume) = (targetVolume' > currentVolume')
            /\ (targetVolume < currentVolume) = (targetVolume' < currentVolume')]_vars

\* the first step from 25 towards 45: 25 + 0.3 x 20 = 31
C12_Witness ==
    /\ pc = "smoothing" /\ targetVolume = Level(45) /\ currentVolume = Level(31)

\* the first step from 80 down towards 27: 80 - 0.3 x 53 = 64.1
C12_WitnessDown ==
    /\ pc = "smoothing" /\ targetVolume = Level(27)
    /\ 10 * currentVolume = Level(641)

\* C13: a printAndSmooth call returns after finitely many iterations, with
\* current = target; the target is not changed between call and return.
C13_ConvergenceTerminates ==
    /\ (pc = "smoothing") ~> (pc = "idle" /\ currentVolume = targetVolume)
    /\ [][pc = "smoothing" =>
            /\ targetVolume' = targetVolume
            /\ pc' = "idle" => currentVolume' = targetVolume]_vars

\* printAndSmooth has brought the current level from elsewhere to 80
C13_Witness ==
    /\ pc = "idle" /\ updated /\ targetVolume = Level(80)
    /\ currentVolume = targetVolume

\* C14: automatic update, ducking inactive, navigation and reverse false,
\* speed not below the previous speed:
\* target = clamp((25 + bonus + 0.2 x noise) x m, 0, 80), bonus 15 / 10 / 5 / 0
\* for speed > 70 / 30 < speed <= 70 / 0 < speed <= 30 / speed <= 0 and
\* m = 0.8 / 1 / 1.2 for Eco / Comfort / Sport.
C14_AutomaticBaseline ==
    (/\ updated /\ controlType = "ADAPTIVE" /\ ~hornDuckActive
     /\ ~navSpeaking /\ ~reverseGear /\ speed >= previousSpeed)
    => targetVolume =
         RefClamp(
           (5 * (25 + (IF speed > 70 THEN 15
                       ELSE IF 30 < speed /\ speed <= 70 THEN 10
                       ELSE IF 0 < speed /\ speed <= 30 THEN 5
                       ELSE 0))
            + cabinNoise)
           * (CASE mode = "ECO" -> 8 [] mode = "COMFORT" -> 10
                [] mode = "SPORTS" -> 12)
           * (Scale \div 50))

\* speed 70 (the top of the middle band), noise 50, Comfort: 25 + 10 + 10 = 45
C14_Witness ==
    /\ updated /\ controlType = "ADAPTIVE" /\ ~hornDuckActive
    /\ ~navSpeaking /\ ~reverseGear /\ speed = 70 /\ previousSpeed <= 70
    /\ cabinNoise = 50 /\ mode = "COMFORT" /\ targetVolume = Level(45)

\* speed 31, noise 50, Sport: 45 x 1.2 = 54
C14_WitnessSport ==
    /\ updated /\ controlType = "ADAPTIVE" /\ ~hornDuckActive
    /\ ~navSpeaking /\ ~reverseGear /\ speed = 31 /\ previousSpeed <= 31
    /\ cabinNoise = 50 /\ mode = "SPORTS" /\ targetVolume = Level(54)

\* C15: update() leaves the current level as it is; the current level changes
\* only in an iteration of the printAndSmooth loop or in the assignment of
\* the target that ends the loop.
C15_UpdateKeepsCurrent ==
    [][/\ UpdateStep => currentVolume' = currentVolume
       /\ currentVolume' # currentVolume =>
            /\ pc = "smoothing"
            /\ \/ currentVolume' = smoothVolumeTransition(currentVolume, targetVolume)
               \/ pc' = "idle" /\ currentVolume' = targetVolume]_vars

\* after printAndSmooth brought the current level to 80 an update asks for
\* 27: the current level still is 80
C15_Witness ==
    /\ pc = "idle" /\ updated /\ returned = NoCall
    /\ currentVolume = Level(80) /\ targetVolume = Level(27)

\* C16 (as stated): after construction speed = previous speed = 0, noise 30,
\* flags false, Comfort, automatic, manual level 0, ducking inactive,
\* current = target = 25.
C16_InitialState ==
    ~updated =>
        /\ speed = 0 /\ previousSpeed = 0 /\ cabinNoise = 30
        /\ ~reverseGear /\ ~hornActive /\ ~navSpeaking
        /\ mode = "COMFORT" /\ controlType = "ADAPTIVE"
        /\ manualVolume = 0
        /\ ~hornDuckActive
        /\ currentVolume = Level(25) /\ targetVolume = Level(25)

\* C16 (amended): as stated, but the manual level is 25.
C16_InitialStateManual25 ==
    ~updated =>
        /\ speed = 0 /\ previousSpeed = 0 /\ cabinNoise = 30
        /\ ~reverseGear /\ ~hornActive /\ ~navSpeaking
        /\ mode = "COMFORT" /\ controlType = "ADAPTIVE"
        /\ manualVolume = 25
        /\ ~hornDuckActive
        /\ currentVolume = Level(25) /\ targetVolume = Level(25)

\* the constructed engine, before any call
C16_Witness ==
    /\ ~updated /\ now = 0 /\ pc = "idle" /\ returned = NoCall
    /\ manualVolume = 25 /\ currentVolume = Level(25)

\* C17: an accessor call leaves every data member (and the clock and the
\* caller's place) as it was and returns the member it names; as long as no
\* update or smoothing step follows, the value it returned is still the
\* member's value, so a repeated call returns the same.
C17_AccessorsPure ==
    /\ []((returned.fn = "getCurrentVolume" => returned.value = currentVolume)
          /\ (returned.fn = "getTargetVolume" => returned.value = targetVolume))
    /\ [][(returned' # returned /\ returned'.fn # "none") =>
            /\ UNCHANGED <<members, now, console, updated, pc>>
            /\ returned'.fn = "getCurrentVolume" =>
                 returned'.value = currentVolume
            /\ returned'.fn = "getTargetVolume" =>
                 returned'.value = targetVolume]_vars

\* getTargetVolume returns 27 while the current level is 80
C17_Witness ==
    /\ returned = [fn |-> "getTargetVolume", value |-> Level(27)]
    /\ currentVolume = Level(80) /\ targetVolume = Level(27)

\* getCurrentVolume returns 80 while the target is 27
C17_WitnessCurrent ==
    /\ returned = [fn |-> "getCurrentVolume", value |-> Level(80)]
    /\ currentVolume = Level(80) /\ targetVolume = Level(27)

\* the target of an automatic update from its inputs, the previous speed and
\* the ducking flag: clamp(B x duck x navigation x (reverse | band), 0, 80)
RefTarget(spd, prev, noise, m, duck, nav, rev) ==
    RefClamp(
      IF rev
        THEN RefTimes(RefNav(RefDuck(RefBase(spd, noise, m), duck), nav), 1, 4)
        ELSE RefBand(RefNav(RefDuck(RefBase(spd, noise, m), duck), nav),
                     prev - spd))

\* C18: an update with horn flag false, made while ducking is active and the
\* preceding update had horn flag false too: if less than 0.5 s have passed
\* since the window start ducking stays active and an automatic target
\* carries the factor 0.6; from 0.5 s on ducking becomes inactive in that
\* update and the target carries no duck factor.  With ducking inactive and
\* horn flag false ducking stays inactive.
C18_WindowBoundary ==
    [][UpdateCall =>
         /\ (hornDuckActive /\ ~hornActive /\ ~hornActive') =>
              /\ hornDuckActive' = (now' - hornDuckStartTime < HORN_DUCK_DURATION)
              /\ hornDuckStartTime' = hornDuckStartTime
              /\ controlType' = "ADAPTIVE" =>
                   /\ ("[Horn Duck Active]" \in console')
                        = (now' - hornDuckStartTime < HORN_DUCK_DURATION)
                   /\ targetVolume' =
                        RefTarget(speed', speed, cabinNoise', mode',
                                  now' - hornDuckStartTime < HORN_DUCK_DURATION,
                                  navSpeaking', reverseGear')
         /\ (~hornDuckActive /\ ~hornActive') => ~hornDuckActive']_vars

\* horn-false update 0.25 s after the press: still ducked, 45 x 0.6 = 27
C18_Witness ==
    /\ updated /\ controlType = "ADAPTIVE" /\ ~hornActive /\ hornDuckActive
    /\ now - hornDuckStartTime = 1 /\ "[Horn Duck Active]" \in console
    /\ speed = 31 /\ previousSpeed = 31 /\ cabinNoise = 50 /\ mode = "COMFORT"
    /\ ~navSpeaking /\ ~reverseGear /\ targetVolume = Level(27)

\* horn-false update exactly 0.5 s after the press: not ducked, 45
C18_WitnessBoundary ==
    /\ updated /\ controlType = "ADAPTIVE" /\ ~hornActive /\ ~hornDuckActive
    /\ now - hornDuckStartTime = HORN_DUCK_DURATION /\ console = {}
    /\ speed = 31 /\ previousSpeed = 31 /\ cabinNoise = 50 /\ mode = "COMFORT"
    /\ ~navSpeaking /\ ~reverseGear /\ targetVolume = Level(45)

\* C19: a step inside printAndSmooth (call, iteration, return) and the
\* passing of time change no member but the current level: target, context
\* snapshot, previous speed, ducking flag and window start stay, so ducking
\* is still active after its window has run out.
C19_NotSelfWaking ==
    [][(pc = "smoothing" \/ pc' = "smoothing" \/ now' # now) =>
         UNCHANGED <<speed, previousSpeed, cabinNoise, reverseGear, hornActive,
                     navSpeaking, mode, controlType, manualVolume,
                     targetVolume, hornDuckStartTime, hornDuckActive>>]_vars

\* 0.75 s after the press and after a whole printAndSmooth call ducking is
\* still active
C19_Witness ==
    /\ pc = "idle" /\ updated /\ hornDuckActive
    /\ now - hornDuckStartTime > HORN_DUCK_DURATION
    /\ targetVolume = Level(27) /\ currentVolume = targetVolume

\* previous - new > k over the integers, computed inside the int range
DropExceeds(prev, new, k) == IF new > INT_MAX - k THEN FALSE ELSE prev > new + k

\* C20 (as stated): for every pair of int speeds of consecutive updates the
\* strong braking factor is applied exactly when previous - new, taken over
\* the integers, exceeds 10.
C20_BrakingTotal ==
    [][(UpdateCall /\ controlType' = "ADAPTIVE" /\ ~reverseGear') =>
         (("[Sudden Brake]" \in console') = DropExceeds(speed, speed', 10))]_vars

----------------------------------------------------------------------------
(* C21..C23 *)

\* C21: every update, manual or automatic, saves the preceding speed and
\* makes the same ducking transition (a horn-true update arms the window at
\* its own time, a horn-false one keeps the window until 0.5 s have passed).
\* So after a horn-true manual update an automatic horn-false update less
\* than 0.5 s later is ducked (factor 0.6 before the clamp), and the
\* deceleration band of an automatic update after a manual one is that of
\* d = speed of the manual update - new speed.
C21_PolicyIndependentTracking ==
    [][UpdateCall =>
         /\ previousSpeed' = speed
         /\ hornActive' => (hornDuckActive' /\ hornDuckStartTime' = now')
         /\ ~hornActive' =>
              /\ hornDuckActive' =
                   (hornDuckActive
                    /\ now' - hornDuckStartTime < HORN_DUCK_DURATION)
              /\ hornDuckStartTime' = hornDuckStartTime
         /\ (/\ controlType = "MANUAL" /\ hornActive
             /\ controlType' = "ADAPTIVE" /\ ~hornActive'
             /\ now' - hornDuckStartTime < HORN_DUCK_DURATION) =>
              /\ "[Horn Duck Active]" \in console'
              /\ targetVolume' =
                   RefTarget(speed', speed, cabinNoise', mode', TRUE,
                             navSpeaking', reverseGear')
         /\ (/\ controlType = "MANUAL" /\ controlType' = "ADAPTIVE"
             /\ ~reverseGear') =>
              /\ ("[Sudden Brake]" \in console') = (speed - speed' > 10)
              /\ ("[Speed Decrease]" \in console')
                   = (1 <= speed - speed' /\ speed - speed' <= 10)]_vars

\* a manual update with the horn pressed, at time 2 and at speed 31 after
\* speed 71: ducking armed at 2, previous speed 71
C21_Witness ==
    /\ updated /\ controlType = "MANUAL" /\ hornActive /\ hornDuckActive
    /\ hornDuckStartTime = 2 /\ now = 2
    /\ speed = 31 /\ previousSpeed = 71 /\ targetVolume = Level(50)

\* an automatic horn-false update 0.25 s after a press, with a manual level
\* stored: 45 x 0.6 = 27
C21_WitnessDucked ==
    /\ updated /\ controlType = "ADAPTIVE" /\ manualVolume = 150
    /\ ~hornActive /\ hornDuckActive /\ now - hornDuckStartTime = 1
    /\ speed = 31 /\ previousSpeed = 31 /\ cabinNoise = 50 /\ mode = "COMFORT"
    /\ ~navSpeaking /\ ~reverseGear /\ targetVolume = Level(27)

\* C22: the target after an automatic update is a function of that update's
\* inputs, the speed of the preceding update and the ducking flag after the
\* transition, and of nothing else: whatever the earlier targets, the current
\* level, the earlier navigation / reverse / mode / policy values and the
\* stored manual level were, it is
\* clamp(B x duck x navigation x (reverse | deceleration band), 0, 80).
C22_HistoryIndependence ==
    (updated /\ controlType = "ADAPTIVE") =>
        targetVolume = RefTarget(speed, previousSpeed, cabinNoise, mode,
                                 hornDuckActive, navSpeaking, reverseGear)

\* speed 31, noise 50, Comfort on an engine that was brought to manual level
\* 100 before: 45
C22_Witness ==
    /\ updated /\ controlType = "ADAPTIVE" /\ pc = "idle"
    /\ manualVolume = 150 /\ currentVolume = Level(100)
    /\ speed = 31 /\ previousSpeed = 31 /\ cabinNoise = 50 /\ mode = "COMFORT"
    /\ ~navSpeaking /\ ~reverseGear /\ ~hornDuckActive
    /\ targetVolume = Level(45)

\* the same update on an engine that never left the automatic policy and
\* whose current level is the constructed one: 45 as well
C22_WitnessFresh ==
    /\ updated /\ controlType = "ADAPTIVE" /\ pc = "idle"
    /\ manualVolume = 25 /\ currentVolume = Level(25)
    /\ speed = 31 /\ previousSpeed = 31 /\ cabinNoise = 50 /\ mode = "COMFORT"
    /\ ~navSpeaking /\ ~reverseGear /\ ~hornDuckActive
    /\ targetVolume = Level(45)

\* C23: if from some point on every update has horn flag false, updates keep
\* occurring and the clock advances, ducking eventually becomes inactive and
\* stays inactive as long as no update has horn flag true.  The clock of the
\* exploration stops at MaxTime, so the windows followed are those that run
\* out by then.
C23_DuckingEnds ==
    /\ []((/\ hornDuckStartTime + HORN_DUCK_DURATION <= MaxTime
           /\ []~hornActive)
          => <>[]~hornDuckActive)
    /\ [][(~hornDuckActive /\ ~hornActive') => ~hornDuckActive']_vars

\* the window armed at time 1 has been ended by a horn-false update at time 3
C23_Witness ==
    /\ updated /\ ~hornActive /\ ~hornDuckActive
    /\ hornDuckStartTime = 1 /\ now = MaxTime
    /\ "[Horn Duck Active]" \notin console

====
